---- MODULE Spec2Model ----
(***************************************************************************)
(* State-machine model of the usercanal Go SDK data plane: the facade      *)
(* (api.Client), the two batch accumulators (batch.Manager for events and  *)
(* logs), the transport Sender and its ConnManager with the retry task.    *)
(***************************************************************************)
EXTENDS Integers, Sequences, FiniteSets, TLC

\* ---------------------------------------------------------------- bounds
\* total number of records the callers may append
MaxRecords == 3
\* configured batch size (cfg.batchSize) of both accumulators
BatchSize == 2
\* the failure counter of the sender's metrics wraps at FailWrap
FailWrap == 2
\* the most addresses a lookup answers with
MaxAddrs == 3

\* ------------------------------------------------------- program constants
\* per-batch item cap checked by SendEvents / SendLogs
MaxBatchItems == 1000

\* types.LogTrace, the highest log level, and types.LogCollect,
\* types.LogEnrich, the log event types
LogTrace == 8
LogCollect == 1
LogEnrich == 2
\* the buffer of cm.retrySignal: make(chan struct{}, 1)
RetrySlots == 1
\* the length of a credential of the documented form, in bytes
KeyBytes == 16
\* per-batch cap on the sum of the payload sizes, and on the encoded data
MaxBatchSize == 10 * 1024 * 1024
\* per-record cap on the payload size (MaxEventSize and MaxLogSize)
MaxRecordSize == 1024 * 1024
\* bytes of the fixed fields every record table carries next to its payload:
\* the uint64 timestamp and the event type
FixedFieldBytes == 9
\* the payload size of the records the callers of the model submit: one byte
\* (an empty payload is rejected)
MinPayload == 1

\* ----------------------------------------------------------------- domains
\* queue lengths and payload sizes around the caps
QueueLengths == {1, 10, 11, MaxBatchItems, MaxBatchItems + 1}
PayloadSizes == {MinPayload, MaxRecordSize}

\* the credentials New is tried with: the number of characters, and whether
\* all of them are hexadecimal digits
KeyLengths == {0, 2, 31, 2 * KeyBytes, 2 * KeyBytes + 2}
ApiKeys == [chars : KeyLengths, hex : BOOLEAN]

\* the inputs of the facade's convenience methods
Strings == {"", "x"}
LogLevels == 0..LogTrace
Amounts == {-1, 0, 1}

\* a queue of n records of kind a with sz payload bytes each
LoadedQueue(a, n, sz) == [i \in 1..n |-> [id |-> i, kind |-> a, size |-> sz]]

Callers == {"c1", "c2"}
Workers == {"wE", "wL"}
Procs == Callers \cup Workers
Accs == {"event", "log"}

\* the accumulator whose periodicFlush goroutine w is
WorkerAcc(w) == IF w = "wE" THEN "event" ELSE "log"

RECURSIVE Flatten(_)
Flatten(batches) ==
    IF batches = <<>> THEN <<>>
    ELSE Head(batches).recs \o Flatten(Tail(batches))

\* the sum of f over the set S
RECURSIVE SumOver(_, _)
SumOver(S, f) ==
    IF S = {} THEN 0
    ELSE LET x == CHOOSE y \in S : TRUE IN f[x] + SumOver(S \ {x}, f)

VARIABLES
    \* batch.Manager (one per accumulator)
    events,         \* m.events
    successCount,   \* m.successCount
    done,           \* m.done closed (and m.ticker stopped)
    tick,           \* a tick is buffered in m.ticker.C
    \* api.Client
    closing, closed,
    \* goroutines: the callers and the two periodicFlush workers
    pc,             \* position of each goroutine
    op,             \* the operation it is in
    acc,            \* the accumulator its Flush runs on
    snap,           \* the local `events` snapshot of its Flush
    serr,           \* the error its send callback returned
    ret,            \* the value the last call that returned has returned
    fret,           \* the result of its Flush that Manager.Close looks at
    rec,            \* id of the record appended by its current Add (0: none)
    ctxDone,        \* the ctx the caller passed has fired
    mctxDone,       \* the 5s ctx of Manager.Close has fired
    flushErr,       \* local flushErr of Client.Close
    queueSize,      \* local queueSize of Manager.Close
    \* transport.Sender
    sctxDone,       \* s.ctx cancelled
    failedAttempts, \* s.metrics.FailedAttempts, counted modulo FailWrap
    apiKey,         \* len(s.apiKey), 0 while there is no sender
    \* transport.ConnManager
    conn,           \* cm.conn: "nil" or "open"
    connState,      \* cm.currentState.State
    cmCtxDone,      \* cm.ctx cancelled
    retrySignal,    \* number of tokens buffered in cm.retrySignal
    retrying,       \* cm.retrying
    rtPc,           \* position of the handleRetries goroutine
    resolvedIPs,    \* cm.resolvedIPs
    currentIPIndex, \* cm.currentIPIndex
    \* environment
    netUp,          \* the collector accepts connections
    connAlive,      \* the socket behind cm.conn still works
    torn,           \* the stream of cm.conn ends in the middle of a frame
    dns,            \* the addresses net.LookupHost answers with
    \* observation
    wire,           \* the batches written to the socket, in order
    nextId,         \* id of the next record to be appended
    acked,          \* ids whose Add returned nil
    ackedOpen,      \* ids whose Add returned nil before Close began
    reported,       \* per accumulator, the remnant count Close reported (-1: none)
    added,          \* per accumulator, the number of records appended so far
    dropped,        \* per accumulator, the records of snapshots given up
    ingestRejected, \* checkClosed has refused an ingest call
    sendFailed,     \* some send callback has returned an error
    tried           \* the endpoints of the last connect attempts, oldest first

mgrVars == <<events, successCount, done, tick>>
procVars == <<pc, op, acc, snap, serr, ret, fret, rec, ctxDone, mctxDone, flushErr, queueSize>>
sndVars == <<sctxDone, failedAttempts, apiKey>>
cmVars == <<conn, connState, cmCtxDone, retrySignal, retrying, rtPc>>
envVars == <<netUp, connAlive, torn>>
obsVars == <<wire, nextId, acked, ackedOpen, reported, ingestRejected, sendFailed,
            added, dropped>>
epVars == <<resolvedIPs, currentIPIndex, dns, tried>>
vars == <<mgrVars, closing, closed, procVars, sndVars, cmVars, envVars, obsVars, epVars>>

\* cm.endpoint, the literal endpoint; the resolved addresses are 1, 2, ...
Endpoint == 0

\* what resolveEndpoint stores for a lookup that answers with n addresses
Addresses(n) == [i \in 1..n |-> i]

\* ------------------------------------------------------------------- Init
\* the state after api.New returned a client: NewSender has connected once,
\* both managers are empty and their workers wait for the first tick
Init ==
    /\ events = [a \in Accs |-> <<>>]
    /\ successCount = [a \in Accs |-> 0]
    /\ done = [a \in Accs |-> FALSE]
    /\ tick = [a \in Accs |-> FALSE]
    /\ closing = FALSE
    /\ closed = FALSE
    /\ pc = [p \in Procs |-> "idle"]
    /\ op = [p \in Procs |-> "none"]
    /\ acc = [p \in Procs |-> IF p \in Workers THEN WorkerAcc(p) ELSE "event"]
    /\ snap = [p \in Procs |-> <<>>]
    /\ serr = [p \in Procs |-> "nil"]
    /\ ret = "nil"
    /\ fret = "nil"
    /\ rec = [p \in Procs |-> 0]
    /\ ctxDone = [p \in Procs |-> FALSE]
    /\ mctxDone = FALSE
    /\ flushErr = "nil"
    /\ queueSize = 0
    /\ sctxDone = FALSE
    /\ failedAttempts = 0
    /\ apiKey = KeyBytes
    /\ dns = Addresses(1)
    /\ resolvedIPs = Addresses(1)
    /\ currentIPIndex = 0
    /\ tried = <<1>>
    /\ torn = FALSE
    /\ conn = "open"
    /\ connState = "Connected"
    /\ cmCtxDone = FALSE
    /\ retrySignal = 0
    /\ retrying = FALSE
    /\ rtPc = "idle"
    /\ netUp = TRUE
    /\ connAlive = TRUE
    /\ wire = <<>>
    /\ nextId = 1
    /\ added = [a \in Accs |-> 0]
    /\ acked = {}
    /\ ackedOpen = {}
    /\ reported = [a \in Accs |-> -1]
    /\ dropped = [a \in Accs |-> 0]
    /\ ingestRejected = FALSE
    /\ sendFailed = FALSE

\* a client whose accumulator holds what piled up while sends were failing:
\* n records of sz payload bytes each, the connection up again
InitLoaded ==
    /\ \E a \in Accs, n \in QueueLengths, sz \in PayloadSizes :
        /\ events = [b \in Accs |-> IF b = a THEN LoadedQueue(a, n, sz) ELSE <<>>]
        /\ nextId = n + 1
        /\ added = [b \in Accs |-> IF b = a THEN n ELSE 0]
    /\ successCount = [a \in Accs |-> 0]
    /\ done = [a \in Accs |-> FALSE]
    /\ tick = [a \in Accs |-> FALSE]
    /\ closing = FALSE
    /\ closed = FALSE
    /\ pc = [p \in Procs |-> "idle"]
    /\ op = [p \in Procs |-> "none"]
    /\ acc = [p \in Procs |-> IF p \in Workers THEN WorkerAcc(p) ELSE "event"]
    /\ snap = [p \in Procs |-> <<>>]
    /\ serr = [p \in Procs |-> "nil"]
    /\ ret = "nil"
    /\ fret = "nil"
    /\ rec = [p \in Procs |-> 0]
    /\ ctxDone = [p \in Procs |-> FALSE]
    /\ mctxDone = FALSE
    /\ flushErr = "nil"
    /\ queueSize = 0
    /\ sctxDone = FALSE
    /\ failedAttempts = 0
    /\ apiKey = KeyBytes
    /\ dns = Addresses(1)
    /\ resolvedIPs = Addresses(1)
    /\ currentIPIndex = 0
    /\ tried = <<1>>
    /\ torn = FALSE
    /\ conn = "open"
    /\ connState = "Connected"
    /\ cmCtxDone = FALSE
    /\ retrySignal = 0
    /\ retrying = FALSE
    /\ rtPc = "idle"
    /\ netUp = TRUE
    /\ connAlive = TRUE
    /\ wire = <<>>
    /\ acked = {}
    /\ ackedOpen = {}
    /\ reported = [a \in Accs |-> -1]
    /\ dropped = [a \in Accs |-> 0]
    /\ ingestRejected = FALSE
    /\ sendFailed = FALSE

\* the state before api.New is called: no connection yet, the collector
\* reachable or not
StartState(ips) ==
    /\ events = [a \in Accs |-> <<>>]
    /\ successCount = [a \in Accs |-> 0]
    /\ done = [a \in Accs |-> FALSE]
    /\ tick = [a \in Accs |-> FALSE]
    /\ closing = FALSE
    /\ closed = FALSE
    /\ pc = [p \in Procs |-> "new"]
    /\ op = [p \in Procs |-> "none"]
    /\ acc = [p \in Procs |-> IF p \in Workers THEN WorkerAcc(p) ELSE "event"]
    /\ snap = [p \in Procs |-> <<>>]
    /\ serr = [p \in Procs |-> "nil"]
    /\ ret = "nil"
    /\ fret = "nil"
    /\ rec = [p \in Procs |-> 0]
    /\ ctxDone = [p \in Procs |-> FALSE]
    /\ mctxDone = FALSE
    /\ flushErr = "nil"
    /\ queueSize = 0
    /\ sctxDone = FALSE
    /\ failedAttempts = 0
    /\ apiKey = 0
    /\ dns = ips
    /\ resolvedIPs = <<>>
    /\ currentIPIndex = 0
    /\ tried = <<>>
    /\ torn = FALSE
    /\ conn = "nil"
    /\ connState = "Idle"
    /\ cmCtxDone = FALSE
    /\ retrySignal = 0
    /\ retrying = FALSE
    /\ rtPc = "idle"
    /\ netUp \in BOOLEAN
    /\ connAlive = FALSE
    /\ wire = <<>>
    /\ nextId = 1
    /\ added = [a \in Accs |-> 0]
    /\ acked = {}
    /\ ackedOpen = {}
    /\ reported = [a \in Accs |-> -1]
    /\ dropped = [a \in Accs |-> 0]
    /\ ingestRejected = FALSE
    /\ sendFailed = FALSE

InitStart == StartState(Addresses(1))

\* the state before api.New is called, for every answer of the lookup: no
\* address, one, or several
InitRing == \E n \in 0..MaxAddrs : StartState(Addresses(n))

\* --------------------------------------------------------------- helpers
\* a checkClosed that looks at c.closed only
CheckClosedIgnoresClosing == IF closed THEN "Validation" ELSE "nil"

\* Client.checkClosed
CheckClosed ==
    IF closed THEN "Validation"
    ELSE IF closing THEN "Validation"
    ELSE "nil"

\* a Flush that never looks at the ctx of an API call
CtxFiredIgnoresCaller(p) ==
    CASE op[p] = "CloseMgr" -> mctxDone
      [] OTHER -> FALSE

\* whether the ctx that p's running Flush was given has fired: the worker
\* passes context.Background(), Manager.Close its own 5s ctx, every other
\* caller the ctx of the API call
CtxFired(p) ==
    CASE op[p] = "Tick" -> FALSE
      [] op[p] = "CloseMgr" -> mctxDone
      [] OTHER -> ctxDone[p]

\* a requeue that loses the first record of the snapshot
RequeueSkipsFirst(queue, snapshot) == queue \o Tail(snapshot)

\* Manager.Flush, failure branch: append(m.events, events...)
Requeue(queue, snapshot) == queue \o snapshot

\* the records of a sequence, as ids
Ids(s) == {s[i].id : i \in 1..Len(s)}

\* What the caller of Manager.Flush does with its result err:
\*   Manager.Add returns it (and with it Client.Track / Client.Log),
\*   Client.Flush returns a failure or goes on to the log batcher,
\*   Client.Close stores the failure of its c.Flush(ctx) in flushErr,
\*   Manager.Close goes on to its error / remaining check,
\*   periodicFlush logs it and waits for the next tick.
FlushReturns(p, err) ==
    LET o == op[p]
        chain == o \in {"Flush", "CloseFlush"} /\ acc[p] = "event" /\ err = "nil"
        isAdd == o \in {"Track", "Log"}
    IN  /\ pc' = [pc EXCEPT ![p] =
                    CASE chain -> "flush"
                      [] o = "CloseFlush" -> "mgrClose"
                      [] o = "CloseMgr" -> "mgrEnd"
                      [] OTHER -> "idle"]
        /\ op' = [op EXCEPT ![p] =
                    CASE chain -> o
                      [] o = "CloseFlush" -> "CloseMgr"
                      [] o = "CloseMgr" -> o
                      [] OTHER -> "none"]
        /\ acc' = [acc EXCEPT ![p] =
                    CASE chain -> "log"
                      [] o \in {"CloseMgr", "Tick"} -> acc[p]
                      [] OTHER -> "event"]
        /\ snap' = [snap EXCEPT ![p] = <<>>]
        /\ serr' = [serr EXCEPT ![p] = "nil"]
        /\ ret' = IF o \in {"Track", "Log"} \/ (o = "Flush" /\ ~chain) THEN err ELSE ret
        /\ fret' = IF o = "CloseMgr" THEN err ELSE fret
        /\ rec' = [rec EXCEPT ![p] = 0]
        /\ acked' = IF isAdd /\ err = "nil" THEN acked \cup {rec[p]} ELSE acked
        /\ ackedOpen' = IF isAdd /\ err = "nil" /\ ~closing
                        THEN ackedOpen \cup {rec[p]} ELSE ackedOpen
        /\ flushErr' = IF o = "CloseFlush" /\ ~chain THEN err ELSE flushErr

\* ------------------------------------------------------ batch.Manager.Flush
\* a Flush that keeps m.mu while its send callback runs
MuHeldAcrossSend(a) ==
    {q \in Procs : acc[q] = a /\ pc[q] \in {"send", "write", "write2", "dial"}}

\* the goroutines that hold m.mu of accumulator a from one step to the next:
\* none, every Lock is followed by its Unlock before the next call that can
\* wait (Flush unlocks before m.send)
MuHolders(a) == {}

\* m.mu.Lock() of accumulator a succeeds for p
MuFree(p, a) == MuHolders(a) \ {p} = {}

\* a Flush that forgets to reset the queue after taking its snapshot
AfterSnapshotKeepsQueue(queue) == queue

\* m.events = make([]interface{}, 0, m.size): the queue after the snapshot
AfterSnapshot(queue) == <<>>

\* lock; empty queue: return nil; else take the snapshot and reset the queue
FlushSnapshot(p) ==
    /\ pc[p] = "flush"
    /\ MuFree(p, acc[p])
    /\ IF events[acc[p]] = <<>>
       THEN /\ FlushReturns(p, "nil")
            /\ UNCHANGED events
       ELSE /\ snap' = [snap EXCEPT ![p] = events[acc[p]]]
            /\ events' = [events EXCEPT ![acc[p]] = AfterSnapshot(@)]
            /\ pc' = [pc EXCEPT ![p] = "send"]
            /\ UNCHANGED <<op, acc, serr, ret, fret, rec, acked, ackedOpen, flushErr>>
    /\ UNCHANGED <<successCount, done, tick, closing, closed,
                   ctxDone, mctxDone, queueSize, sndVars, epVars, cmVars, envVars,
                   wire, nextId, added, reported, dropped, ingestRejected, sendFailed>>

\* the send callback failed with e: Flush goes on to the requeue decision
SendFails(p, e) ==
    /\ sendFailed' = TRUE
    /\ serr' = [serr EXCEPT ![p] = e]
    /\ pc' = [pc EXCEPT ![p] = "requeue"]
    /\ UNCHANGED <<op, acc, snap, ret, fret, rec, acked, ackedOpen, flushErr>>

\* the payload bytes of items[lo..hi], summed by halves
RECURSIVE SizeOfRange(_, _, _)
SizeOfRange(items, lo, hi) ==
    IF lo > hi THEN 0
    ELSE IF lo = hi THEN items[lo].size
    ELSE LET mid == (lo + hi) \div 2
         IN  SizeOfRange(items, lo, mid) + SizeOfRange(items, mid + 1, hi)

\* totalSize: the sum of the payload sizes of the items
TotalSize(items) == SizeOfRange(items, 1, Len(items))

\* len(data) in sendBatch: the encoded buffer holds at least the payloads
\* and the fixed fields of every table
DataSize(items) == TotalSize(items) + Len(items) * FixedFieldBytes

\* a preflight without the item cap
PreflightNoItemCap(items) ==
    \/ \E i \in DOMAIN items : items[i].size = 0 \/ items[i].size > MaxRecordSize
    \/ TotalSize(items) > MaxBatchSize

\* the checks of SendEvents / SendLogs before anything is encoded: the item
\* cap, per item a non-empty payload within the record cap, and the cap on
\* the sum of the payloads; TRUE when the batch is rejected
Preflight(items) ==
    \/ Len(items) > MaxBatchItems
    \/ \E i \in DOMAIN items : items[i].size = 0 \/ items[i].size > MaxRecordSize
    \/ TotalSize(items) > MaxBatchSize

\* the send callback, first part (SendEvents / SendLogs up to sendBatch):
\* item-count validation, then the s.ctx check
SendValidate(p) ==
    /\ pc[p] = "send"
    /\ IF Preflight(snap[p]) \/ sctxDone \/ DataSize(snap[p]) > MaxBatchSize
       THEN SendFails(p, "Validation")
       ELSE /\ pc' = [pc EXCEPT ![p] = "write"]
            /\ UNCHANGED <<op, acc, snap, serr, ret, fret, rec, acked,
                           ackedOpen, flushErr, sendFailed>>
    /\ UNCHANGED <<events, successCount, done, tick, closing, closed,
                   ctxDone, mctxDone, queueSize, sndVars, epVars, cmVars, envVars,
                   wire, nextId, added, reported, dropped, ingestRejected>>

\* outcomes of conn.Write: it fails on a broken socket, and may fail on a
\* working one when the write deadline taken from ctx has passed
WriteOutcomes(p) ==
    IF connAlive
    THEN (IF CtxFired(p) THEN {TRUE, FALSE} ELSE {TRUE})
    ELSE {FALSE}

\* --------------------------------------------------------- signalRetry
\* a signalRetry that queues every signal
SignalRetryQueued(n) == n + 1

\* ConnManager.signalRetry: a send on cm.retrySignal that does not wait; the
\* token is dropped when the buffer of RetrySlots is full
SignalRetry(n) == IF n < RetrySlots THEN n + 1 ELSE n

\* ------------------------------------------------- SendEvents / SendLogs
\* the tables in the order the builder creates them: the loop of SendEvents
\* and SendLogs runs from the last item down to the first
BuildTables(items) == [k \in 1..Len(items) |-> items[Len(items) - k + 1]]

\* eventOffsets[i] / logOffsets[i]: where the table of item i was created
Offsets(items) == [i \in 1..Len(items) |-> Len(items) - i + 1]

\* the EventData / LogData buffer: the tables and the vector of their offsets
EncodeData(items) == [tables |-> BuildTables(items), vec |-> Offsets(items)]

\* the records of a buffer as a reader of the vector gets them
DecodeData(data) == [i \in 1..Len(data.vec) |-> data.tables[data.vec[i]]]

\* the schema type SendEvents (SchemaTypeEVENT) and SendLogs (SchemaTypeLOG)
\* hand to sendBatch
SchemaTypeOf(a) == IF a = "event" THEN 1 ELSE 2

\* a recordFailure that leaves the metrics alone
RecordFailureSkipped(n) == n

\* Sender.recordFailure: s.metrics.FailedAttempts++
RecordFailure(n) == (n + 1) % FailWrap

\* what a failed conn.Write leaves on the stream: nothing, or, when the
\* socket works and the write deadline passed during the write, the first
\* bytes of the frame
PartialWrites == IF connAlive THEN {FALSE, TRUE} ELSE {FALSE}

\* a success count that counts batches
CountedPerBatch(n, snapshot) == n + 1

\* Manager.Flush after a successful send: m.successCount += len(events)
Counted(n, snapshot) == n + Len(snapshot)

\* Sender.sendFrame with a connection: SetWriteDeadline, then one
\* conn.Write(frame) of the length prefix and the batch; on an error
\* recordFailure, signalRetry and a NetworkError, the connection stays
\* published
SendWrite(p) ==
    /\ pc[p] \in {"write", "write2"}
    /\ conn # "nil"
    /\ \E ok \in WriteOutcomes(p) :
        IF ok
        THEN /\ wire' = Append(wire, [kind |-> acc[p],
                                      recs |-> DecodeData(EncodeData(snap[p]))])
             /\ successCount' = [successCount EXCEPT ![acc[p]] = Counted(@, snap[p])]
             /\ FlushReturns(p, "nil")
             /\ UNCHANGED <<retrySignal, sendFailed, failedAttempts, torn>>
        ELSE /\ failedAttempts' = RecordFailure(failedAttempts)
             /\ retrySignal' = SignalRetry(retrySignal)
             /\ \E partial \in PartialWrites : torn' = (torn \/ partial)
             /\ SendFails(p, "Network")
             /\ UNCHANGED <<wire, successCount>>
    /\ UNCHANGED <<events, done, tick, closing, closed, ctxDone, mctxDone,
                   queueSize, sctxDone, apiKey, epVars, conn, connState, cmCtxDone, retrying,
                   rtPc, netUp, connAlive, nextId, added, reported, dropped, ingestRejected>>

\* a ring that stays on its first address
NextIndexStuck(ips, i) == i

\* getNextEndpoint: cm.currentIPIndex after the call
NextIndex(ips, i) == IF Len(ips) = 0 THEN i ELSE (i + 1) % Len(ips)

\* getNextEndpoint: the endpoint it returns (cm.resolvedIPs is 0-based)
NextEndpoint(ips, i) == IF Len(ips) = 0 THEN Endpoint ELSE ips[i + 1]

\* the endpoints of the last attempts: as many as there are addresses, one
\* when there is none
LastTried(s, ips) ==
    LET w == IF Len(ips) = 0 THEN 1 ELSE Len(ips)
    IN  IF Len(s) > w THEN SubSeq(s, Len(s) - w + 1, Len(s)) ELSE s

\* ConnManager.getNextEndpoint, as called by Connect
GetNextEndpoint ==
    /\ tried' = LastTried(Append(tried, NextEndpoint(resolvedIPs, currentIPIndex)),
                          resolvedIPs)
    /\ currentIPIndex' = NextIndex(resolvedIPs, currentIPIndex)
    /\ UNCHANGED <<resolvedIPs, dns>>

\* Sender.sendFrame without a connection: one immediate Connect(ctx), which
\* ConnManager.Connect refuses when the manager is closed; after the
\* reconnect a connection that is still nil fails the send
SendNoConn(p) ==
    /\ pc[p] \in {"write", "write2"}
    /\ conn = "nil"
    /\ IF pc[p] = "write2" \/ cmCtxDone
       THEN /\ failedAttempts' = RecordFailure(failedAttempts)
            /\ SendFails(p, "Network")
            /\ UNCHANGED <<connState, epVars>>
       ELSE /\ connState' = "Connecting"
            /\ GetNextEndpoint
            /\ pc' = [pc EXCEPT ![p] = "dial"]
            /\ UNCHANGED <<op, acc, snap, serr, ret, fret, rec, acked,
                           ackedOpen, flushErr, sendFailed, failedAttempts>>
    /\ UNCHANGED <<events, successCount, done, tick, closing, closed, ctxDone,
                   mctxDone, queueSize, sctxDone, apiKey, conn, cmCtxDone, retrySignal,
                   retrying, rtPc, envVars, wire, nextId, added, reported, dropped, ingestRejected>>

\* outcomes of DialContext under a ctx: it succeeds only against a reachable
\* collector, and may fail when the ctx has fired
DialOutcomes(fired) ==
    (IF netUp THEN {TRUE} ELSE {}) \cup (IF ~netUp \/ fired THEN {FALSE} ELSE {})

\* the end of the Connect that sendFrame started
SendDial(p) ==
    /\ pc[p] = "dial"
    /\ \E ok \in DialOutcomes(CtxFired(p)) :
        IF ok
        THEN /\ conn' = "open"
             /\ connAlive' = TRUE
             /\ connState' = "Connected"
             /\ torn' = FALSE
             /\ pc' = [pc EXCEPT ![p] = "write2"]
             /\ UNCHANGED <<retrySignal, op, acc,
                            snap, serr, ret, fret, rec, acked, ackedOpen, flushErr,
                            sendFailed, failedAttempts>>
        ELSE /\ connState' = "Failed"
             /\ retrySignal' = SignalRetry(retrySignal)
             /\ failedAttempts' = RecordFailure(failedAttempts)
             /\ SendFails(p, "Network")
             /\ UNCHANGED <<conn, connAlive, torn>>
    /\ UNCHANGED <<events, successCount, done, tick, closing, closed, ctxDone,
                   mctxDone, queueSize, sctxDone, apiKey, epVars, cmCtxDone, retrying,
                   rtPc, netUp, wire, nextId, added, reported, dropped, ingestRejected>>

\* Manager.Flush after a failed send: a fired ctx returns a TimeoutError and
\* the snapshot is gone; otherwise the snapshot is put back and a
\* NetworkError returned
FlushRequeue(p) ==
    /\ pc[p] = "requeue"
    /\ MuFree(p, acc[p])
    /\ IF CtxFired(p)
       THEN /\ FlushReturns(p, "Timeout")
            /\ UNCHANGED events
            /\ dropped' = [dropped EXCEPT ![acc[p]] = @ + Len(snap[p])]
       ELSE /\ events' = [events EXCEPT ![acc[p]] = Requeue(@, snap[p])]
            /\ FlushReturns(p, "Network")
            /\ UNCHANGED dropped
    /\ UNCHANGED <<successCount, done, tick, closing, closed,
                   ctxDone, mctxDone, queueSize, sndVars, epVars, cmVars, envVars,
                   wire, nextId, added, reported, ingestRejected, sendFailed>>


\* ----------------------------------------------------------- the callers
\* number of ingest calls that are about to append
PendingAdds == Cardinality({q \in Callers : pc[q] = "add"})

\* a facade that hands every record to the event batcher
BatcherAlwaysEvent(o) == "event"

\* the batcher an ingest call adds to: c.eventBatcher for Track, c.logBatcher
\* for Log
Batcher(o) == IF o = "Track" THEN "event" ELSE "log"

\* what the conversion makes of the input: EventToInternal a
\* *transport.Event, LogToInternal a *transport.Log
RecordKind(o) == IF o = "Track" THEN "event" ELSE "log"

\* Client.Track (o = "Track"; Identify, Group and Revenue take the same
\* path) and Client.Log (o = "Log"), called with a fresh ctx, up to the call
\* of Manager.Add: checkClosed (validation and conversion of a well-formed
\* input change no state)
IngestCheck(p, o) ==
    /\ pc[p] = "idle"
    /\ IF CheckClosed # "nil"
       THEN /\ ret' = CheckClosed
            /\ UNCHANGED fret
            /\ ingestRejected' = TRUE
            /\ UNCHANGED <<pc, op, acc, ctxDone>>
       ELSE /\ nextId + PendingAdds <= MaxRecords
            /\ pc' = [pc EXCEPT ![p] = "add"]
            /\ op' = [op EXCEPT ![p] = o]
            /\ acc' = [acc EXCEPT ![p] = Batcher(o)]
            /\ ctxDone' = [ctxDone EXCEPT ![p] = FALSE]
            /\ UNCHANGED <<ret, fret, ingestRejected>>
    /\ UNCHANGED <<mgrVars, closing, closed, snap, serr, rec, mctxDone,
                   flushErr, queueSize, sndVars, epVars, cmVars, envVars, wire, nextId, added,
                   acked, ackedOpen, reported, dropped, sendFailed>>

\* the same calls made with a ctx that is already cancelled
IngestCancelled(p, o) ==
    /\ pc[p] = "idle"
    /\ ctxDone' = [ctxDone EXCEPT ![p] = TRUE]
    /\ IF CheckClosed # "nil"
       THEN /\ ret' = CheckClosed
            /\ UNCHANGED fret
            /\ ingestRejected' = TRUE
            /\ UNCHANGED <<pc, op, acc>>
       ELSE /\ nextId + PendingAdds <= MaxRecords
            /\ pc' = [pc EXCEPT ![p] = "add"]
            /\ op' = [op EXCEPT ![p] = o]
            /\ acc' = [acc EXCEPT ![p] = Batcher(o)]
            /\ UNCHANGED <<ret, fret, ingestRejected>>
    /\ UNCHANGED <<mgrVars, closing, closed, snap, serr, rec, mctxDone,
                   flushErr, queueSize, sndVars, epVars, cmVars, envVars, wire, nextId, added,
                   acked, ackedOpen, reported, dropped, sendFailed>>

\* an ingest call whose input fails (verr) or passes ("nil") its Validate:
\* checkClosed comes first, then a failed validation returns ErrInvalidInput
\* and touches nothing, and a valid input goes on to Manager.Add
IngestInput(p, o, verr) ==
    IF CheckClosed = "nil" /\ verr # "nil"
    THEN /\ pc[p] = "idle"
         /\ ret' = verr
         /\ UNCHANGED <<mgrVars, closing, closed, pc, op, acc, snap, serr, fret,
                        rec, ctxDone, mctxDone, flushErr, queueSize, sndVars, epVars,
                        cmVars, envVars, obsVars>>
    ELSE IngestCheck(p, o)

\* LogEntry.Validate
LogEntryValidate(l) ==
    IF \/ l.level > LogTrace
       \/ l.eventType > LogEnrich
       \/ l.service = ""
       \/ l.source = ""
       \/ (l.message = "" /\ ~l.hasData)
    THEN "Validation" ELSE "nil"

\* the entry the facade's LogInfo .. LogTrace build: the level of the method,
\* event type LogCollect, and "" as the source
FacadeLogEntry(level, service, message, hasData) ==
    [level |-> level, eventType |-> LogCollect, service |-> service,
     source |-> "", message |-> message, hasData |-> hasData]

\* Client.LogInfo .. Client.LogTrace of the facade, through Client.Log
LogLevelCall(p, level, service, message, hasData) ==
    /\ pc[p] = "idle"
    /\ IngestInput(p, "Log",
                   LogEntryValidate(FacadeLogEntry(level, service, message, hasData)))

\* Revenue.Validate (no products, well-formed properties)
RevenueValidate(r) ==
    IF \/ r.userID = ""
       \/ r.orderID = ""
       \/ r.amount <= 0
       \/ r.currency = ""
       \/ r.type = ""
    THEN "Validation" ELSE "nil"

\* the Revenue the facade's EventRevenue builds: Type is left at its zero
\* value
FacadeRevenue(userID, orderID, amount, currency) ==
    [userID |-> userID, orderID |-> orderID, amount |-> amount,
     currency |-> currency, type |-> ""]

\* Client.EventRevenue of the facade, through Client.Revenue
EventRevenue(p, userID, orderID, amount, currency) ==
    /\ pc[p] = "idle"
    /\ IngestInput(p, "Track",
                   RevenueValidate(FacadeRevenue(userID, orderID, amount, currency)))

\* a threshold that is off by one
NeedsFlushOffByOne(len) == len > BatchSize

\* Manager.Add: needsFlush := len(m.events) >= m.size
NeedsFlush(len) == len >= BatchSize

\* an Add that does not look at its ctx
AddCtxIgnored(p) == FALSE

\* Manager.Add, select case <-ctx.Done()
AddCtxDone(p) == ctxDone[p]

\* Manager.Add: a fired ctx returns a TimeoutError; otherwise append under
\* the lock and flush synchronously when the queue reached the batch size
Add(p) ==
    /\ pc[p] = "add"
    /\ AddCtxDone(p) \/ MuFree(p, acc[p])
    /\ IF AddCtxDone(p)
       THEN /\ ret' = "Timeout"
            /\ UNCHANGED fret
            /\ pc' = [pc EXCEPT ![p] = "idle"]
            /\ op' = [op EXCEPT ![p] = "none"]
            /\ acc' = [acc EXCEPT ![p] = "event"]
            /\ UNCHANGED <<events, nextId, added, rec, acked, ackedOpen>>
       ELSE /\ events' = [events EXCEPT ![acc[p]] =
                            Append(@, [id |-> nextId, kind |-> RecordKind(op[p]),
                                       size |-> MinPayload])]
            /\ nextId' = nextId + 1
            /\ added' = [added EXCEPT ![acc[p]] = @ + 1]
            /\ IF NeedsFlush(Len(events[acc[p]]) + 1)
               THEN /\ pc' = [pc EXCEPT ![p] = "flush"]
                    /\ rec' = [rec EXCEPT ![p] = nextId]
                    /\ UNCHANGED <<ret, fret, op, acc, acked, ackedOpen>>
               ELSE /\ ret' = "nil"
                    /\ UNCHANGED fret
                    /\ pc' = [pc EXCEPT ![p] = "idle"]
                    /\ op' = [op EXCEPT ![p] = "none"]
                    /\ acc' = [acc EXCEPT ![p] = "event"]
                    /\ acked' = acked \cup {nextId}
                    /\ ackedOpen' = IF closing THEN ackedOpen ELSE ackedOpen \cup {nextId}
                    /\ UNCHANGED rec
    /\ UNCHANGED <<successCount, done, tick, closing, closed, snap,
                   serr, ctxDone, mctxDone, flushErr, queueSize, sndVars, epVars, cmVars,
                   envVars, wire, reported, dropped, ingestRejected, sendFailed>>

\* Client.Flush: checkClosed, then the event batcher's Flush
FlushCheck(p) ==
    /\ pc[p] = "idle"
    /\ IF CheckClosed # "nil"
       THEN /\ ret' = CheckClosed
            /\ UNCHANGED fret
            /\ UNCHANGED <<pc, op, ctxDone>>
       ELSE /\ pc' = [pc EXCEPT ![p] = "flush"]
            /\ op' = [op EXCEPT ![p] = "Flush"]
            /\ ctxDone' = [ctxDone EXCEPT ![p] = FALSE]
            /\ UNCHANGED <<ret, fret>>
    /\ UNCHANGED <<mgrVars, closing, closed, acc, snap, serr, rec,
                   mctxDone, flushErr, queueSize, sndVars, epVars, cmVars, envVars, obsVars>>

\* ------------------------------------------------------------ Client.Close
\* a Close that looks at c.closed only
ShutdownStartedIgnoresClosing == closed

\* Client.Close, under c.mu: c.closed or c.closing is set
ShutdownStarted == closed \/ closing

\* lock; a closed or closing client returns a validation error; otherwise
\* mark the client as closing
CloseBegin(p) ==
    /\ pc[p] = "idle"
    /\ IF ShutdownStarted
       THEN /\ ret' = "Validation"
            /\ UNCHANGED fret
            /\ UNCHANGED <<closing, flushErr, pc, op, ctxDone>>
       ELSE /\ closing' = TRUE
            /\ flushErr' = "nil"
            /\ pc' = [pc EXCEPT ![p] = "closeFlush"]
            /\ op' = [op EXCEPT ![p] = "Close"]
            /\ ctxDone' = [ctxDone EXCEPT ![p] = FALSE]
            /\ UNCHANGED <<ret, fret>>
    /\ UNCHANGED <<mgrVars, closed, acc, snap, serr, rec, mctxDone,
                   queueSize, sndVars, epVars, cmVars, envVars, obsVars>>

\* the c.Flush(ctx) of Client.Close: it starts with checkClosed, like every
\* Client.Flush; its failure becomes flushErr
CloseFlush(p) ==
    /\ pc[p] = "closeFlush"
    /\ IF CheckClosed # "nil"
       THEN /\ flushErr' = CheckClosed
            /\ pc' = [pc EXCEPT ![p] = "mgrClose"]
            /\ op' = [op EXCEPT ![p] = "CloseMgr"]
       ELSE /\ pc' = [pc EXCEPT ![p] = "flush"]
            /\ op' = [op EXCEPT ![p] = "CloseFlush"]
            /\ UNCHANGED flushErr
    /\ UNCHANGED <<mgrVars, closing, closed, acc, snap, serr, ret, fret, rec, ctxDone,
                   mctxDone, queueSize, sndVars, epVars, cmVars, envVars, obsVars>>

\* Manager.Close up to its Flush: stop the ticker, close(m.done), start the
\* 5s ctx, read the queue size
MgrCloseBegin(p) ==
    /\ pc[p] = "mgrClose"
    /\ done' = [done EXCEPT ![acc[p]] = TRUE]
    /\ mctxDone' = FALSE
    /\ queueSize' = Len(events[acc[p]])
    /\ pc' = [pc EXCEPT ![p] = "flush"]
    /\ UNCHANGED <<events, successCount, tick, closing, closed, op,
                   acc, snap, serr, ret, fret, rec, ctxDone, flushErr, sndVars, epVars, cmVars,
                   envVars, obsVars>>

\* Manager.Close after its Flush, and what Client.Close does with the
\* result: a failed flush returns a NetworkError naming queueSize, which
\* Client.Close keeps only when flushErr is still nil; a successful flush
\* warns about the records found in the queue afterwards
MgrCloseEnd(p) ==
    /\ pc[p] = "mgrEnd"
    /\ IF fret # "nil"
       THEN /\ flushErr' = IF flushErr = "nil" THEN "Network" ELSE flushErr
            /\ reported' = IF flushErr = "nil"
                           THEN [reported EXCEPT ![acc[p]] = queueSize]
                           ELSE reported
       ELSE /\ reported' = IF Len(events[acc[p]]) > 0
                           THEN [reported EXCEPT ![acc[p]] = Len(events[acc[p]])]
                           ELSE reported
            /\ UNCHANGED flushErr
    /\ IF acc[p] = "event"
       THEN /\ acc' = [acc EXCEPT ![p] = "log"]
            /\ pc' = [pc EXCEPT ![p] = "mgrClose"]
       ELSE /\ acc' = [acc EXCEPT ![p] = "event"]
            /\ pc' = [pc EXCEPT ![p] = "sndClose"]
    /\ UNCHANGED <<mgrVars, closing, closed, op, snap, serr, ret, fret, rec, ctxDone,
                   mctxDone, queueSize, sndVars, epVars, cmVars, envVars, wire, nextId, added, dropped,
                   acked, ackedOpen, ingestRejected, sendFailed>>

\* Sender.Close up to connMgr.Close: cancel s.ctx (the state monitor, which
\* selects on s.ctx, exits)
SenderClose(p) ==
    /\ pc[p] = "sndClose"
    /\ sctxDone' = TRUE
    /\ pc' = [pc EXCEPT ![p] = "cmClose"]
    /\ UNCHANGED <<mgrVars, closing, closed, op, acc, snap, serr, ret, fret, rec,
                   ctxDone, mctxDone, flushErr, queueSize, failedAttempts, apiKey, epVars,
                   cmVars, envVars, obsVars>>

\* Client.Close after sender.Close returned: mark the client closed and
\* return flushErr
CloseReturns(p) ==
    /\ closed' = TRUE
    /\ ret' = flushErr
    /\ UNCHANGED fret
    /\ pc' = [pc EXCEPT ![p] = "idle"]
    /\ op' = [op EXCEPT ![p] = "none"]

\* ConnManager.Close, first critical section: an already cancelled manager
\* returns nil, otherwise cm.conn is taken out
CmCloseLock(p) ==
    /\ pc[p] = "cmClose"
    /\ IF cmCtxDone
       THEN /\ CloseReturns(p)
            /\ UNCHANGED conn
       ELSE /\ conn' = "nil"
            /\ pc' = [pc EXCEPT ![p] = "cmCancel"]
            /\ UNCHANGED <<closed, ret, fret, op>>
    /\ UNCHANGED <<mgrVars, closing, acc, snap, serr, rec, ctxDone, mctxDone,
                   flushErr, queueSize, sndVars, epVars, connState, cmCtxDone,
                   retrySignal, retrying, rtPc, envVars, obsVars>>

\* ConnManager.Close: cm.cancel()
CmCloseCancel(p) ==
    /\ pc[p] = "cmCancel"
    /\ cmCtxDone' = TRUE
    /\ pc' = [pc EXCEPT ![p] = "cmWait"]
    /\ UNCHANGED <<mgrVars, closing, closed, op, acc, snap, serr, ret, fret, rec,
                   ctxDone, mctxDone, flushErr, queueSize, sndVars, epVars, conn,
                   connState, retrySignal, retrying, rtPc, envVars,
                   obsVars>>

\* ConnManager.Close: cm.wg.Wait() returns once handleRetries has exited;
\* the socket taken out is closed and Close returns
CmCloseWait(p) ==
    /\ pc[p] = "cmWait"
    /\ rtPc = "exited"
    /\ CloseReturns(p)
    /\ UNCHANGED <<mgrVars, closing, acc, snap, serr, rec, ctxDone, mctxDone,
                   flushErr, queueSize, sndVars, epVars, cmVars, envVars, obsVars>>


\* ------------------------------------------------- Manager.periodicFlush
\* the ticker, while not stopped, delivers a tick into its one-slot channel;
\* the tick stays buffered while the worker is inside a Flush (a tick that
\* finds the worker waiting is taken at once, see WorkerTick)
TickFire(a) ==
    /\ ~done[a]
    /\ ~tick[a]
    /\ \E w \in Workers : WorkerAcc(w) = a /\ pc[w] \notin {"idle", "exited"}
    /\ tick' = [tick EXCEPT ![a] = TRUE]
    /\ UNCHANGED <<events, successCount, done, closing, closed,
                   procVars, sndVars, epVars, cmVars, envVars, obsVars>>

\* a worker whose ticker never delivers: only a tick already buffered is taken
WorkerTickStopped(w) ==
    /\ pc[w] = "idle"
    /\ tick[WorkerAcc(w)]
    /\ tick' = [tick EXCEPT ![WorkerAcc(w)] = FALSE]
    /\ pc' = [pc EXCEPT ![w] = "flush"]
    /\ op' = [op EXCEPT ![w] = "Tick"]
    /\ UNCHANGED <<events, successCount, done, closing, closed,
                   acc, snap, serr, ret, fret, rec, ctxDone, mctxDone, flushErr,
                   queueSize, sndVars, epVars, cmVars, envVars, obsVars>>

\* select case <-m.ticker.C: Flush(context.Background())
WorkerTick(w) ==
    /\ pc[w] = "idle"
    /\ tick[WorkerAcc(w)] \/ ~done[WorkerAcc(w)]
    /\ tick' = [tick EXCEPT ![WorkerAcc(w)] = FALSE]
    /\ pc' = [pc EXCEPT ![w] = "flush"]
    /\ op' = [op EXCEPT ![w] = "Tick"]
    /\ UNCHANGED <<events, successCount, done, closing, closed,
                   acc, snap, serr, ret, fret, rec, ctxDone, mctxDone, flushErr,
                   queueSize, sndVars, epVars, cmVars, envVars, obsVars>>

\* select case <-m.done: return
WorkerExit(w) ==
    /\ pc[w] = "idle"
    /\ done[WorkerAcc(w)]
    /\ pc' = [pc EXCEPT ![w] = "exited"]
    /\ UNCHANGED <<mgrVars, closing, closed, op, acc, snap, serr, ret, fret, rec,
                   ctxDone, mctxDone, flushErr, queueSize, sndVars, epVars, cmVars,
                   envVars, obsVars>>

\* ------------------------------------------- ConnManager.handleRetries
\* select case <-cm.ctx.Done(): return
RtExit ==
    /\ rtPc = "idle"
    /\ cmCtxDone
    /\ rtPc' = "exited"
    /\ UNCHANGED <<mgrVars, closing, closed, procVars, sndVars, epVars, conn, connState,
                   cmCtxDone, retrySignal, retrying, envVars, obsVars>>

\* select case <-cm.retrySignal: take the token; the CompareAndSwap on
\* cm.retrying starts a retry sequence unless one is marked as running
RtWake ==
    /\ rtPc = "idle"
    /\ retrySignal > 0
    /\ retrySignal' = retrySignal - 1
    /\ IF retrying
       THEN UNCHANGED <<retrying, rtPc>>
       ELSE /\ retrying' = TRUE
            /\ rtPc' = "retry"
    /\ UNCHANGED <<mgrVars, closing, closed, procVars, sndVars, epVars, conn, connState,
                   cmCtxDone, envVars, obsVars>>

\* the operation of RetryNotify, cm.Connect(cm.ctx), up to the dial: a
\* closed manager returns ErrConnectionClosed, which RetryNotify treats like
\* every other error: it waits for the next backoff interval
RtConnect ==
    /\ rtPc = "retry"
    /\ IF cmCtxDone
       THEN /\ rtPc' = "backoff"
            /\ UNCHANGED <<connState, epVars>>
       ELSE /\ connState' = "Connecting"
            /\ GetNextEndpoint
            /\ rtPc' = "dial"
    /\ UNCHANGED <<mgrVars, closing, closed, procVars, sndVars, conn, cmCtxDone,
                   retrySignal, retrying, envVars, obsVars>>

\* cm.Connect(cm.ctx) from the dial on: a failed dial marks the state
\* Failed, signals a retry and sends RetryNotify into the backoff wait; a
\* successful one replaces cm.conn and ends the retry sequence
RtDial ==
    /\ rtPc = "dial"
    /\ \E ok \in DialOutcomes(cmCtxDone) :
        IF ok
        THEN /\ conn' = "open"
             /\ connAlive' = TRUE
             /\ connState' = "Connected"
             /\ torn' = FALSE
             /\ retrying' = FALSE
             /\ rtPc' = "idle"
             /\ UNCHANGED retrySignal
        ELSE /\ connState' = "Failed"
             /\ retrySignal' = SignalRetry(retrySignal)
             /\ rtPc' = "backoff"
             /\ UNCHANGED <<conn, connAlive, torn, retrying>>
    /\ UNCHANGED <<mgrVars, closing, closed, procVars, sndVars, epVars, cmCtxDone, netUp, obsVars>>

\* a backoff that gives up
BackoffGivesUp == TRUE

\* cm.backoff.NextBackOff() returns Stop: never, MaxElapsedTime is 0
BackoffStops == FALSE

\* RetryNotify's wait between two attempts: the backoff never stops
\* (MaxElapsedTime = 0) and its timer does not listen to cm.ctx
RtBackoff ==
    /\ rtPc = "backoff"
    /\ IF BackoffStops
       THEN /\ rtPc' = "idle"
            /\ retrying' = FALSE
       ELSE /\ rtPc' = "retry"
            /\ UNCHANGED retrying
    /\ UNCHANGED <<mgrVars, closing, closed, procVars, sndVars, epVars, conn, connState,
                   cmCtxDone, retrySignal, envVars, obsVars>>

\* ------------------------------------------------------------------ New
\* hex.DecodeString(apiKey) succeeds: hexadecimal digits only, in pairs
DecodeOk(k) == k.hex /\ k.chars % 2 = 0

\* len(apiKeyBytes): one byte per pair of digits
DecodedLen(k) == k.chars \div 2

\* api.New / transport.NewSender: an empty or malformed key is a validation
\* error; NewConnManager starts handleRetries; the initial Connect must
\* succeed, or New returns a NetworkError and no client; then the two
\* batchers and their workers are started
NewClient(p) ==
    /\ pc[p] = "new"
    /\ \E k \in ApiKeys :
        IF k.chars = 0 \/ ~DecodeOk(k)
        THEN /\ ret' = "Validation"
             /\ pc' = [pc EXCEPT ![p] = "failed"]
             /\ UNCHANGED <<conn, connAlive, connState, retrySignal, apiKey,
                            epVars>>
        ELSE \E ok \in DialOutcomes(FALSE) :
              /\ resolvedIPs' = dns
              /\ tried' = <<NextEndpoint(dns, 0)>>
              /\ currentIPIndex' = NextIndex(dns, 0)
              /\ UNCHANGED dns
              /\ IF ok
                 THEN /\ apiKey' = DecodedLen(k)
                      /\ conn' = "open"
                      /\ connAlive' = TRUE
                      /\ connState' = "Connected"
                      /\ ret' = "nil"
                      /\ pc' = [q \in Procs |-> "idle"]
                      /\ UNCHANGED retrySignal
                 ELSE /\ connState' = "Failed"
                      /\ retrySignal' = SignalRetry(retrySignal)
                      /\ ret' = "Network"
                      /\ pc' = [pc EXCEPT ![p] = "failed"]
                      /\ UNCHANGED <<conn, connAlive, apiKey>>
    /\ UNCHANGED <<mgrVars, closing, closed, op, acc, snap, serr, fret, rec,
                   ctxDone, mctxDone, flushErr, queueSize, sctxDone,
                   failedAttempts, cmCtxDone,
                   retrying, rtPc, netUp, torn, obsVars>>

\* ------------------------------------------------------------ environment
\* the collector becomes unreachable; the established socket breaks
NetDown ==
    /\ netUp
    /\ netUp' = FALSE
    /\ connAlive' = FALSE
    /\ UNCHANGED <<mgrVars, closing, closed, procVars, sndVars, epVars, cmVars, torn,
                   obsVars>>

\* the collector becomes reachable again
NetUp ==
    /\ ~netUp
    /\ netUp' = TRUE
    /\ UNCHANGED <<mgrVars, closing, closed, procVars, sndVars, epVars, cmVars,
                   connAlive, torn, obsVars>>

\* the ctx a caller passed to its running call fires
CtxFire(p) ==
    /\ pc[p] # "idle"
    /\ ~ctxDone[p]
    /\ ctxDone' = [ctxDone EXCEPT ![p] = TRUE]
    /\ UNCHANGED <<mgrVars, closing, closed, pc, op, acc, snap, serr, ret, fret, rec,
                   mctxDone, flushErr, queueSize, sndVars, epVars, cmVars, envVars,
                   obsVars>>

\* the 5s ctx of a running Manager.Close fires
MctxFire ==
    /\ \E p \in Callers : op[p] = "CloseMgr" /\ pc[p] \in {"flush", "send", "write", "write2", "dial", "requeue"}
    /\ ~mctxDone
    /\ mctxDone' = TRUE
    /\ UNCHANGED <<mgrVars, closing, closed, pc, op, acc, snap, serr, ret, fret, rec,
                   ctxDone, flushErr, queueSize, sndVars, epVars, cmVars, envVars,
                   obsVars>>

\* ---------------------------------------------------------- specifications
\* the goroutines that run Flush on the event accumulator
EventProcs == Callers \cup {"wE"}

\* The accumulator under concurrent callers: two callers track events while
\* the event worker ticks, the collector goes down and comes back, the retry
\* task reconnects, and the callers' contexts may fire.
NextAcc ==
    \/ \E p \in Callers : IngestCheck(p, "Track")
    \/ \E p \in Callers : Add(p)
    \/ \E p \in EventProcs : FlushSnapshot(p)
    \/ \E p \in EventProcs : SendValidate(p)
    \/ \E p \in EventProcs : SendWrite(p)
    \/ \E p \in EventProcs : FlushRequeue(p)
    \/ WorkerTick("wE")
    \/ NetDown
    \/ NetUp
    \/ RtWake
    \/ RtConnect
    \/ RtDial
    \/ RtBackoff
    \/ \E p \in Callers : CtxFire(p)

SpecAcc == Init /\ [][NextAcc]_vars

\* The same accumulator when no caller's context fires: every failure of a
\* send is a failure of the connection.
NextNoCancel ==
    \/ \E p \in Callers : IngestCheck(p, "Track")
    \/ \E p \in Callers : Add(p)
    \/ \E p \in EventProcs : FlushSnapshot(p)
    \/ \E p \in EventProcs : SendValidate(p)
    \/ \E p \in EventProcs : SendWrite(p)
    \/ \E p \in EventProcs : FlushRequeue(p)
    \/ WorkerTick("wE")
    \/ NetDown
    \/ NetUp
    \/ RtWake
    \/ RtConnect
    \/ RtDial
    \/ RtBackoff

SpecNoCancel == Init /\ [][NextNoCancel]_vars

\* One caller adding events and logs one call after the other; no tick
\* arrives in between; the collector may go down and the ctx of a call
\* may fire.
NextSize ==
    \/ \E o \in {"Track", "Log"} : IngestCheck("c1", o)
    \/ Add("c1")
    \/ FlushSnapshot("c1")
    \/ SendValidate("c1")
    \/ SendWrite("c1")
    \/ FlushRequeue("c1")
    \/ NetDown
    \/ CtxFire("c1")

SpecSize == Init /\ [][NextSize]_vars

\* The facade's convenience methods next to the plain ingest calls of one
\* caller, with inputs that pass or fail their validation.
NextFacade ==
    \/ \E l \in LogLevels, sv \in Strings, m \in Strings, hd \in BOOLEAN :
          LogLevelCall("c1", l, sv, m, hd)
    \/ \E u \in Strings, o \in Strings, a \in Amounts, c \in Strings :
          EventRevenue("c1", u, o, a, c)
    \/ \E o \in {"Track", "Log"} : IngestCheck("c1", o)
    \/ Add("c1")
    \/ CloseBegin("c1")
    \/ FlushSnapshot("c1")
    \/ SendValidate("c1")
    \/ SendWrite("c1")
    \/ FlushRequeue("c1")
    \/ NetDown
    \/ CtxFire("c1")

SpecFacade == Init /\ [][NextFacade]_vars

\* The periodic worker next to two callers that track events, with the
\* collector reachable.
NextTick ==
    \/ \E p \in Callers : IngestCheck(p, "Track")
    \/ \E p \in Callers : Add(p)
    \/ \E p \in EventProcs : FlushSnapshot(p)
    \/ \E p \in EventProcs : SendValidate(p)
    \/ \E p \in EventProcs : SendWrite(p)
    \/ WorkerTick("wE")

\* what the periodicFlush goroutine of the event batcher does
WorkerStep ==
    \/ WorkerTick("wE")
    \/ FlushSnapshot("wE")
    \/ SendValidate("wE")
    \/ SendWrite("wE")

\* the ticker keeps ticking and the worker goroutine is scheduled; nothing
\* is assumed about the callers
SpecTick == Init /\ [][NextTick]_vars /\ WF_vars(WorkerStep)

\* The periodic worker under Close: caller c1 tracks events and closes the
\* client while the ticker of the event batcher runs.
NextWorker ==
    \/ IngestCheck("c1", "Track")
    \/ Add("c1")
    \/ CloseBegin("c1")
    \/ CloseFlush("c1")
    \/ MgrCloseBegin("c1")
    \/ MgrCloseEnd("c1")
    \/ SenderClose("c1")
    \/ CmCloseLock("c1")
    \/ CmCloseCancel("c1")
    \/ CmCloseWait("c1")
    \/ \E p \in {"c1", "wE"} : FlushSnapshot(p)
    \/ \E p \in {"c1", "wE"} : SendValidate(p)
    \/ \E p \in {"c1", "wE"} : SendWrite(p)
    \/ \E p \in {"c1", "wE"} : SendNoConn(p)
    \/ \E p \in {"c1", "wE"} : FlushRequeue(p)
    \/ TickFire("event")
    \/ WorkerTick("wE")
    \/ WorkerExit("wE")
    \/ RtExit

SpecWorker == Init /\ [][NextWorker]_vars

\* Construction and what follows: c1 builds the client, with the collector
\* reachable or not, and tracks events next to the worker while the
\* collector goes down and comes back and the retry task reconnects.
NextStart ==
    \/ NewClient("c1")
    \/ IngestCheck("c1", "Track")
    \/ Add("c1")
    \/ \E p \in {"c1", "wE"} : FlushSnapshot(p)
    \/ \E p \in {"c1", "wE"} : SendValidate(p)
    \/ \E p \in {"c1", "wE"} : SendWrite(p)
    \/ \E p \in {"c1", "wE"} : FlushRequeue(p)
    \/ WorkerTick("wE")
    \/ NetDown
    \/ NetUp
    \/ RtWake
    \/ RtConnect
    \/ RtDial
    \/ RtBackoff

SpecStart == InitStart /\ [][NextStart]_vars

\* Flushing what has piled up: a queue of up to MaxBatchItems + 1 records of
\* small or large payloads is flushed by Client.Flush and by the workers,
\* while the collector may go down and the caller's context may fire.
NextLoaded ==
    \/ FlushCheck("c1")
    \/ \E w \in Workers : WorkerTick(w)
    \/ \E p \in Procs \ {"c2"} : FlushSnapshot(p)
    \/ \E p \in Procs \ {"c2"} : SendValidate(p)
    \/ \E p \in Procs \ {"c2"} : SendWrite(p)
    \/ \E p \in Procs \ {"c2"} : FlushRequeue(p)
    \/ NetDown
    \/ CtxFire("c1")

SpecLoaded == InitLoaded /\ [][NextLoaded]_vars

\* The lifecycle of the facade: caller c1 uses the whole API, caller c2
\* tracks events, no tick arrives and sends fail
\* once the socket broke; the retry task is not scheduled before the
\* connection manager is cancelled.
NextClose ==
    \/ \E o \in {"Track", "Log"} : IngestCheck("c1", o)
    \/ IngestCheck("c2", "Track")
    \/ \E o \in {"Track", "Log"} : IngestCancelled("c1", o)
    \/ IngestCancelled("c2", "Track")
    \/ \E p \in Callers : Add(p)
    \/ FlushCheck("c1")
    \/ CloseBegin("c1")
    \/ CloseFlush("c1")
    \/ MgrCloseBegin("c1")
    \/ MgrCloseEnd("c1")
    \/ SenderClose("c1")
    \/ CmCloseLock("c1")
    \/ CmCloseCancel("c1")
    \/ CmCloseWait("c1")
    \/ \E p \in Callers : FlushSnapshot(p)
    \/ \E p \in Callers : SendValidate(p)
    \/ \E p \in Callers : SendWrite(p)
    \/ \E p \in Callers : SendNoConn(p)
    \/ \E p \in Callers : SendDial(p)
    \/ \E p \in Callers : FlushRequeue(p)
    \/ RtExit
    \/ NetDown
    \/ CtxFire("c1")
    \/ MctxFire

SpecClose == Init /\ [][NextClose]_vars

\* The connection manager under Close: caller c1 tracks events and closes
\* the client while the collector goes down and comes back and the retry
\* task reconnects.
NextConn ==
    \/ IngestCheck("c1", "Track")
    \/ Add("c1")
    \/ CloseBegin("c1")
    \/ CloseFlush("c1")
    \/ MgrCloseBegin("c1")
    \/ MgrCloseEnd("c1")
    \/ SenderClose("c1")
    \/ CmCloseLock("c1")
    \/ CmCloseCancel("c1")
    \/ CmCloseWait("c1")
    \/ FlushSnapshot("c1")
    \/ SendValidate("c1")
    \/ SendWrite("c1")
    \/ FlushRequeue("c1")
    \/ RtExit
    \/ RtWake
    \/ RtConnect
    \/ RtDial
    \/ RtBackoff
    \/ NetDown
    \/ NetUp
    \/ MctxFire

\* what the goroutine of c1 does once it is inside a call: the scheduler
\* runs it as long as it can take a step
CallerStep ==
    \/ Add("c1")
    \/ CloseFlush("c1")
    \/ MgrCloseBegin("c1")
    \/ MgrCloseEnd("c1")
    \/ SenderClose("c1")
    \/ CmCloseLock("c1")
    \/ CmCloseCancel("c1")
    \/ CmCloseWait("c1")
    \/ FlushSnapshot("c1")
    \/ SendValidate("c1")
    \/ SendWrite("c1")
    \/ FlushRequeue("c1")

\* what the handleRetries goroutine does
RetryStep == RtExit \/ RtWake \/ RtConnect \/ RtDial \/ RtBackoff

\* goroutines that can run are run, and the timer of a started ctx fires
SpecConn ==
    /\ Init /\ [][NextConn]_vars
    /\ WF_vars(CallerStep)
    /\ WF_vars(RetryStep)
    /\ WF_vars(MctxFire)

\* A caller's reconnect next to the retry task's: caller c1 tracks events
\* and closes the client, caller c2 flushes, and the retry task connects
\* while the collector goes down and comes back.
NextOverlap ==
    \/ IngestCheck("c1", "Track")
    \/ Add("c1")
    \/ FlushCheck("c2")
    \/ CloseBegin("c1")
    \/ CloseFlush("c1")
    \/ MgrCloseBegin("c1")
    \/ MgrCloseEnd("c1")
    \/ SenderClose("c1")
    \/ CmCloseLock("c1")
    \/ CmCloseCancel("c1")
    \/ CmCloseWait("c1")
    \/ \E p \in Callers : FlushSnapshot(p)
    \/ \E p \in Callers : SendValidate(p)
    \/ \E p \in Callers : SendWrite(p)
    \/ \E p \in Callers : SendNoConn(p)
    \/ \E p \in Callers : SendDial(p)
    \/ \E p \in Callers : FlushRequeue(p)
    \/ RtExit
    \/ RtWake
    \/ RtConnect
    \/ RtDial
    \/ RtBackoff
    \/ NetDown
    \/ NetUp

SpecOverlap == Init /\ [][NextOverlap]_vars

\* Connect attempts over the resolved addresses: c1 builds the client for
\* every answer of the lookup, and the retry task connects again and again
\* while the collector goes down and comes back.
NextRing ==
    \/ NewClient("c1")
    \/ RtWake
    \/ RtConnect
    \/ RtDial
    \/ RtBackoff
    \/ NetDown
    \/ NetUp

SpecRing == InitRing /\ [][NextRing]_vars

\* Two callers close the client: c1 tracks events, both callers call
\* Close, whenever they like and as often as they like, and the collector
\* may go down.
NextShutdown ==
    \/ IngestCheck("c1", "Track")
    \/ Add("c1")
    \/ \E p \in Callers : CloseBegin(p)
    \/ \E p \in Callers : CloseFlush(p)
    \/ \E p \in Callers : MgrCloseBegin(p)
    \/ \E p \in Callers : MgrCloseEnd(p)
    \/ \E p \in Callers : SenderClose(p)
    \/ \E p \in Callers : CmCloseLock(p)
    \/ \E p \in Callers : CmCloseCancel(p)
    \/ \E p \in Callers : CmCloseWait(p)
    \/ \E p \in Callers : FlushSnapshot(p)
    \/ \E p \in Callers : SendValidate(p)
    \/ \E p \in Callers : SendWrite(p)
    \/ \E p \in Callers : FlushRequeue(p)
    \/ RtExit
    \/ NetDown

SpecShutdown == Init /\ [][NextShutdown]_vars

\* every goroutine and the environment, unrestricted
Next ==
    \/ \E p \in Callers : \E o \in {"Track", "Log"} : IngestCheck(p, o)
    \/ \E p \in Callers : \E o \in {"Track", "Log"} : IngestCancelled(p, o)
    \/ \E p \in Callers : Add(p)
    \/ \E p \in Callers : FlushCheck(p)
    \/ \E p \in Callers : CloseBegin(p)
    \/ \E p \in Callers : CloseFlush(p)
    \/ \E p \in Callers : MgrCloseBegin(p)
    \/ \E p \in Callers : MgrCloseEnd(p)
    \/ \E p \in Callers : SenderClose(p)
    \/ \E p \in Callers : CmCloseLock(p)
    \/ \E p \in Callers : CmCloseCancel(p)
    \/ \E p \in Callers : CmCloseWait(p)
    \/ \E p \in Procs : FlushSnapshot(p)
    \/ \E p \in Procs : SendValidate(p)
    \/ \E p \in Procs : SendWrite(p)
    \/ \E p \in Procs : SendNoConn(p)
    \/ \E p \in Procs : SendDial(p)
    \/ \E p \in Procs : FlushRequeue(p)
    \/ \E a \in Accs : TickFire(a)
    \/ \E w \in Workers : WorkerTick(w)
    \/ \E w \in Workers : WorkerExit(w)
    \/ RtExit
    \/ RtWake
    \/ RtConnect
    \/ RtDial
    \/ RtBackoff
    \/ NetDown
    \/ NetUp
    \/ \E p \in Callers : CtxFire(p)
    \/ MctxFire

Spec == Init /\ [][Next]_vars

TypeOK ==
    /\ \A a \in Accs : Len(events[a]) <= MaxRecords
    /\ nextId \in 1..(MaxRecords + 1)
    /\ added \in [Accs -> 0..MaxRecords]
    /\ dropped \in [Accs -> 0..MaxRecords]
    /\ \A p \in Procs : pc[p] \in {"idle", "add", "flush", "send", "write",
                                   "write2", "dial", "requeue", "closeFlush",
                                   "mgrClose", "mgrEnd", "sndClose", "cmClose",
                                   "cmCancel", "cmWait", "exited", "new", "failed"}
    /\ failedAttempts \in 0..(FailWrap - 1)
    /\ torn \in BOOLEAN
    /\ retrySignal \in 0..RetrySlots
    /\ apiKey \in 0..(KeyBytes + 1)
    /\ dns \in {Addresses(n) : n \in 0..MaxAddrs}
    /\ resolvedIPs \in {<<>>, dns}
    /\ currentIPIndex \in 0..MaxAddrs
    /\ tried \in UNION {[1..n -> 0..MaxAddrs] : n \in 0..MaxAddrs}


\* ------------------------------------------------------------------ claims
\* the records written to the connection, in order
Written == Flatten(wire)

\* how many records of s carry the id
CountId(s, id) == Cardinality({i \in 1..Len(s) : s[i].id = id})

\* the goroutines whose Flush holds a snapshot
Flushing == {p \in Procs : pc[p] \in {"send", "write", "write2", "dial", "requeue"}}

\* how many times the record is queued, held in a snapshot, or written
Queued(id) == SumOver(Accs, [a \in Accs |-> CountId(events[a], id)])
InFlight(id) == SumOver(Flushing, [p \in Flushing |-> CountId(snap[p], id)])
Copies(id) == Queued(id) + InFlight(id) + CountId(Written, id)

\* C1: a record whose ingest call returned success before Close is written
\* to the collector in the end; so until it is written it is never lost: it
\* is queued, held by a Flush in progress, or on the connection.
C1_AckedNeverLost == \A id \in ackedOpen : Copies(id) >= 1

\* C2: a Flush whose send failed and whose ctx has not fired puts its
\* snapshot back at the head of the queue, in the original order, in front
\* of the records that arrived meanwhile.
C2_RequeueAtHead ==
    [][\A p \in Procs :
         (pc[p] = "requeue" /\ pc'[p] # "requeue" /\ ~CtxFired(p))
            => events'[acc[p]] = snap[p] \o events[acc[p]]]_vars

\* C3: a Flush whose send failed and whose ctx has not fired loses no
\* record: every record of the snapshot is back in the queue exactly once,
\* none was written, the queue holds what it held plus the snapshot, and the
\* caller gets a NetworkError.
C3_FailedFlushLosesNothing ==
    [][\A p \in Procs :
         (pc[p] = "requeue" /\ pc'[p] # "requeue" /\ ~CtxFired(p))
            => /\ \A id \in Ids(snap[p]) :
                    /\ CountId(events'[acc[p]], id) = 1
                    /\ CountId(Written', id) = 0
               /\ Len(events'[acc[p]]) = Len(events[acc[p]]) + Len(snap[p])
               /\ \A id \in Ids(events[acc[p]]) : CountId(events'[acc[p]], id) = 1
               /\ p \in Callers => (ret' = "Network" /\ pc'[p] = "idle")]_vars

\* a caller has got the NetworkError of a failed flush and the two records
\* of its snapshot are queued again
C3_Witness ==
    /\ ret = "Network"
    /\ sendFailed
    /\ Len(events["event"]) >= BatchSize
    /\ \A p \in Callers : pc[p] = "idle"
    /\ Written = <<>>

\* the ids of the records appended so far
Appended == 1..(nextId - 1)

\* nothing is queued and no goroutine is inside a call
Drained ==
    /\ \A p \in Procs : pc[p] = "idle"
    /\ \A a \in Accs : events[a] = <<>>

InSend(a) == {p \in Procs : acc[p] = a /\ pc[p] \in {"send", "write", "write2", "dial"}}

\* C5: at most one flush is in progress per accumulator: the send callback
\* of an accumulator never runs in two goroutines at once.
C5_OneFlushPerAccumulator == \A a \in Accs : Cardinality(InSend(a)) <= 1

\* C6: from the moment Close has marked the client as closing, and after it
\* is closed, every ingest call fails with a validation error and appends
\* nothing; closing and closed are never taken back.
C6_ClosingRejectsIngest ==
    [][/\ closing => closing'
       /\ closed => (closed' /\ closing')
       /\ \A p \in Callers : \A o \in {"Track", "Log"} :
            ((closing \/ closed) /\ (IngestCheck(p, o) \/ IngestCancelled(p, o)))
                => /\ ret' = "Validation"
                   /\ events' = events
                   /\ nextId' = nextId
                   /\ pc'[p] = "idle"]_vars

\* an ingest call was refused while Close was still running
C6_Witness ==
    /\ closing /\ ~closed
    /\ ingestRejected
    /\ ret = "Validation"
    /\ pc["c2"] = "idle"

\* the records acknowledged before Close that are still queued
Remnant(a) == Cardinality({i \in 1..Len(events[a]) : events[a][i].id \in ackedOpen})

\* C7: when Close has returned, the records acknowledged before it were
\* all handed to the sender, or Close has reported exactly how many of them
\* are left in each accumulator.
C7_CloseReportsRemnant ==
    closed => \A a \in Accs : Remnant(a) = 0 \/ reported[a] = Remnant(a)

\* C8: Close always returns: once the client is closing it gets closed.
C8_CloseReturns == closing ~> closed

\* the positions of a Flush in which it waits for the connection
IoWait == {"write", "write2", "dial"}

\* C9: the final flush of Close is bounded by the ctx of Close: once that
\* ctx has fired, the ctx that governs the I/O of the final flush has fired
\* too, so that the flush stops waiting.
C9_FinalFlushBoundedByCloseCtx ==
    \A p \in Callers :
        (op[p] \in {"CloseFlush", "CloseMgr"} /\ pc[p] \in IoWait /\ ctxDone[p])
            => CtxFired(p)

\* C10: Client.Flush flushes the event batcher and then the log batcher on
\* every call: it never returns out of its event flush, whatever the result
\* of that flush.
C10_FlushReachesLogs ==
    [][\A p \in Callers :
         (op[p] = "Flush" /\ acc[p] = "event" /\ pc[p] # "idle")
            => pc'[p] # "idle"]_vars

\* the operations in which a caller's own ctx governs the Flush
CallerOps == {"Track", "Log", "Flush"}

\* C11: a batch that the sender rejected with a validation error is not
\* put back into the queue, and the caller gets a validation error.
C11_ValidationNotRequeued ==
    [][\A p \in Procs :
         (pc[p] = "requeue" /\ pc'[p] # "requeue" /\ serr[p] = "Validation")
            => /\ events'[acc[p]] = events[acc[p]]
               /\ op[p] \in CallerOps => ret' = "Validation"]_vars

C13_AppendedSurvivesCancel ==
    [][\A p \in Callers :
         (pc[p] = "requeue" /\ pc'[p] # "requeue" /\ op[p] \in {"Track", "Log"}
            /\ ctxDone[p])
            => LET id == rec[p] IN Copies(id)' >= 1]_vars

\* C14 as stated: an ingest call whose ctx is cancelled on entry returns a
\* timeout error and leaves both queues as they are.
C14_CancelledOnEntryTimesOut ==
    [][\A p \in Callers : \A o \in {"Track", "Log"} :
         /\ (IngestCancelled(p, o) /\ pc'[p] = "idle")
                => (ret' = "Timeout" /\ events' = events)
         /\ (pc[p] = "add" /\ ctxDone[p] /\ pc'[p] # "add")
                => (ret' = "Timeout" /\ events' = events /\ pc'[p] = "idle")]_vars

\* C14, on an open client: an ingest call whose ctx is cancelled on entry
\* gets past checkClosed and returns the timeout error of Manager.Add; on a
\* closing or closed client it returns the validation error of checkClosed.
\* In both cases the queues stay as they are and no record is created.
C14_CancelledOnEntryEnqueuesNothing ==
    [][\A p \in Callers : \A o \in {"Track", "Log"} :
         /\ IngestCancelled(p, o)
                => /\ events' = events
                   /\ IF closing \/ closed
                      THEN ret' = "Validation" /\ pc'[p] = "idle"
                      ELSE pc'[p] = "add"
         /\ (pc[p] = "add" /\ ctxDone[p] /\ pc'[p] # "add")
                => /\ ret' = "Timeout"
                   /\ events' = events
                   /\ nextId' = nextId
                   /\ pc'[p] = "idle"]_vars

\* on an open client a call has returned the timeout error and no record
\* was ever appended
C14_Witness ==
    /\ ret = "Timeout"
    /\ ~closing
    /\ nextId = 1
    /\ \E p \in Callers : ctxDone[p] /\ pc[p] = "idle"

\* the batches written for accumulator a
BatchesOf(a) == {i \in 1..Len(wire) : wire[i].kind = a}

\* C15: an Add that brings the queue to the batch size flushes inside the
\* call: with one caller adding quickly and no send failing, every batch
\* written holds exactly BatchSize records in the order they were added,
\* and whenever the caller is back from a call each queue is below the
\* batch size and holds exactly the records not yet written.
C15_SizeTriggeredFlush ==
    ~sendFailed =>
        /\ \A i \in 1..Len(wire) :
              /\ Len(wire[i].recs) = BatchSize
              /\ \A j \in 1..(BatchSize - 1) : wire[i].recs[j].id < wire[i].recs[j + 1].id
        /\ pc["c1"] = "idle" =>
              /\ \A a \in Accs : Len(events[a]) < BatchSize
              /\ \A a \in Accs :
                    Cardinality({id \in Appended : Copies(id) = 1 /\ Queued(id) = 1
                                    /\ CountId(events[a], id) = 1})
                        = Len(events[a])
              /\ Len(Written) + Len(events["event"]) + Len(events["log"]) = nextId - 1

\* every record the bound allows was added, at least one full batch was
\* written inside an add and no send has failed
C15_Witness ==
    /\ ~sendFailed
    /\ pc["c1"] = "idle"
    /\ Len(wire) >= 1
    /\ nextId = MaxRecords + 1

\* the callers that hold the record in the snapshot of their Flush
HeldByCaller(id) == \E p \in Callers \cap Flushing : CountId(snap[p], id) >= 1

\* C16: a queued record is flushed by the periodic worker without any
\* caller acting: it gets written unless the Flush of a caller has taken it,
\* and the worker takes the whole queue as one snapshot and writes that
\* snapshot as one batch.
C16_WorkerFlushesQueue ==
    /\ \A id \in 1..MaxRecords :
          (Queued(id) >= 1) ~> (CountId(Written, id) >= 1 \/ HeldByCaller(id))
    /\ [][/\ (pc["wE"] = "flush" /\ pc'["wE"] = "send")
              => (snap'["wE"] = events["event"] /\ events'["event"] = <<>>)
          /\ (pc["wE"] \in {"write", "write2"} /\ pc'["wE"] = "idle")
              => wire' = Append(wire, [kind |-> "event", recs |-> snap["wE"]])]_vars

\* the worker has written a batch that was below the batch size, and no
\* caller is inside a call
C16_Witness ==
    /\ \A p \in Procs : pc[p] = "idle"
    /\ \E i \in 1..Len(wire) : Len(wire[i].recs) < BatchSize
    /\ events["event"] = <<>>

\* the positions of a caller inside Manager.Close
InMgrClose == {"mgrClose", "flush", "send", "write", "write2", "dial", "requeue", "mgrEnd"}

\* Manager.Close of accumulator a has returned
MgrCloseReturned(a) ==
    /\ done[a]
    /\ ~\E p \in Callers : op[p] = "CloseMgr" /\ acc[p] = a /\ pc[p] \in InMgrClose

\* C17: after Manager.Close has returned, the periodic worker of that
\* accumulator is not inside a Flush: it has started none since and none
\* it started before is still running.
C17_WorkerQuietAfterClose ==
    \A w \in Workers : MgrCloseReturned(WorkerAcc(w)) => pc[w] \in {"idle", "exited"}

\* C18: construction fails only on validation errors, also when the
\* collector is unreachable at that moment.
C18_StartsWhileUnreachable == pc["c1"] = "failed" => ret = "Validation"

\* C19: a failed socket write counts one failure in the sender's metrics,
\* leaves a token in the retry signal of the connection manager and hands a
\* NetworkError to the Flush that sent; and the retry task takes a token
\* whenever it is idle, whatever the callers are doing.
C19_WriteFailureHandled ==
    /\ [][\A p \in Procs :
            (SendWrite(p) /\ pc'[p] = "requeue") =>
                /\ failedAttempts' = (failedAttempts + 1) % FailWrap
                /\ retrySignal' > 0
                /\ serr'[p] = "Network"]_vars
    /\ []((retrySignal > 0 /\ rtPc = "idle") => ENABLED RtWake)

\* a write on the connection has just failed
C19_Witness ==
    \E p \in Procs :
        /\ pc[p] = "requeue"
        /\ serr[p] = "Network"
        /\ conn = "open"
        /\ retrySignal > 0
        /\ failedAttempts = 1

\* C20: every batch goes out as one whole frame: a frame is written only
\* where the stream of the connection stands at a frame boundary.
C20_FramesNotInterleaved ==
    [][\A p \in Procs :
        (SendWrite(p) /\ Len(wire') > Len(wire)) => ~torn]_vars

\* C21: the records of every batch on the wire are in the order in which
\* they were enqueued (ids are given in the order of the appends).
C21_BatchInEnqueueOrder ==
    \A i \in 1..Len(wire) :
        \A j, k \in 1..Len(wire[i].recs) :
            j < k => wire[i].recs[j].id < wire[i].recs[k].id

C23_OversizedNeverWritten ==
    /\ [](\A i \in 1..Len(wire) :
            /\ Len(wire[i].recs) <= MaxBatchItems
            /\ TotalSize(wire[i].recs) <= MaxBatchSize)
    /\ [][\A p \in Procs :
            (/\ SendValidate(p)
             /\ \/ Len(snap[p]) > MaxBatchItems
                \/ TotalSize(snap[p]) > MaxBatchSize) =>
                /\ serr'[p] = "Validation"
                /\ wire' = wire]_vars

\* a snapshot over the item cap has been rejected, and a full one written
C23_Witness ==
    /\ \E p \in Procs :
          /\ pc[p] = "requeue"
          /\ serr[p] = "Validation"
          /\ Len(snap[p]) > MaxBatchItems
          /\ wire = <<>>

\* a batch of exactly MaxBatchItems records has been written
C23_FullBatchWritten == \E i \in 1..Len(wire) : Len(wire[i].recs) = MaxBatchItems

C25_KeyIsSixteenBytes == pc["c1"] \notin {"new", "failed"} => apiKey = KeyBytes

\* C26: a log entry submitted through a severity method of the facade, with
\* a service and a message and no source, is accepted on an open client and
\* goes on to be enqueued.
C26_LogWithoutSourceAccepted ==
    [][\A p \in Callers, l \in LogLevels :
        (/\ LogLevelCall(p, l, "x", "x", FALSE)
         /\ CheckClosed = "nil") => pc'[p] = "add"]_vars

\* C27: event_revenue with a user, an order, a positive amount and a
\* currency is accepted on an open client and goes on to be enqueued.
C27_RevenueAccepted ==
    [][\A p \in Callers :
        (/\ EventRevenue(p, "x", "x", 1, "x")
         /\ CheckClosed = "nil") => pc'[p] = "add"]_vars

\* the handleRetries goroutine is inside a retry sequence
InRetry == rtPc \in {"retry", "dial", "backoff"}

\* C28: while the manager is open a retry sequence ends only with a
\* successful connect, however many attempts have failed; and when the
\* collector is reachable from some moment on and the manager stays open,
\* every retry sequence leads to the state Connected.
C28_RetriesUntilConnected ==
    /\ [][(InRetry /\ ~cmCtxDone /\ rtPc' = "idle") =>
            (connState' = "Connected" /\ conn' = "open")]_vars
    /\ (<>[](netUp /\ ~cmCtxDone)) => [](InRetry => <>(connState = "Connected"))

\* an attempt has failed while the manager is open, and the task waits to
\* try again
C28_Witness == rtPc = "backoff" /\ ~cmCtxDone /\ ~netUp /\ connState = "Failed"

\* C29: a retry sequence that ends with a successful connect leaves the
\* task idle with nothing to wake it: no retry signal is pending, so that
\* only a failure signalled afterwards starts a further attempt.
C29_IdleAfterSuccess ==
    [][(RtDial /\ rtPc' = "idle") => retrySignal' = 0]_vars

\* C30: at most one retry signal is pending, however many failures have
\* signalled; a goroutine that has to signal a failed write is never kept
\* from its step; and the retry task is in a retry sequence only while it
\* holds the retrying flag, which it takes only when the flag is free.
C30_SignalsCoalesced ==
    /\ [](retrySignal <= 1)
    /\ [](\A p \in Procs :
            (pc[p] \in {"write", "write2"} /\ conn # "nil") => ENABLED SendWrite(p))
    /\ [](InRetry => retrying)
    /\ [][(retrying' /\ ~retrying) => (RtWake /\ ~InRetry)]_vars

\* a failed write has signalled while a signal was pending and a retry
\* sequence was running
C30_Witness ==
    /\ retrySignal = 1
    /\ InRetry
    /\ failedAttempts = 0
    /\ \E p \in Procs : pc[p] = "requeue" /\ serr[p] = "Network"

\* C31: when ConnManager.Close has returned (the client is marked closed
\* right after it), the retry task has exited and the manager holds no
\* open socket.
C31_CloseLeavesNothingOpen == closed => (rtPc = "exited" /\ conn = "nil")

\* C32: the connection state becomes Connected or Failed only from
\* Connecting, also when a caller's connect and the retry task's connect
\* overlap.
C32_SettledOnlyFromConnecting ==
    [][(connState' # connState /\ connState' \in {"Connected", "Failed"}) =>
            connState = "Connecting"]_vars

\* the endpoints tried, as a set
TriedSet == {tried[i] : i \in 1..Len(tried)}

\* C33: with k resolved addresses any k consecutive connect attempts try
\* each address exactly once; with no resolved address every attempt uses
\* the literal endpoint.
C33_AddressesTriedInTurn ==
    /\ (Len(resolvedIPs) > 0 /\ Len(tried) = Len(resolvedIPs)) =>
            (/\ TriedSet = {resolvedIPs[i] : i \in 1..Len(resolvedIPs)}
             /\ Cardinality(TriedSet) = Len(tried))
    /\ (Len(resolvedIPs) = 0 /\ pc["c1"] # "new") => TriedSet \subseteq {Endpoint}

\* MaxAddrs addresses, and the attempts have gone round the ring and on
C33_Witness ==
    /\ Len(resolvedIPs) = MaxAddrs
    /\ Len(tried) = MaxAddrs
    /\ tried[1] # resolvedIPs[1]

\* C34: a Close of an open client during which no send failed and which
\* leaves both queues empty returns nil.
C34_CleanCloseSucceeds ==
    [][(/\ closed' /\ ~closed
        /\ ~sendFailed'
        /\ \A a \in Accs : events'[a] = <<>>) => ret' = "nil"]_vars

\* C35: no Add appends a record and returns success after Manager.Close of
\* its accumulator has returned, that is after the final snapshot was taken
\* and the remnants were counted.
C35_NoAppendAfterClose ==
    [][\A p \in Callers :
        (/\ pc[p] = "add" /\ pc'[p] = "idle"
         /\ MgrCloseReturned(acc[p])
         /\ Len(events'[acc[p]]) = Len(events[acc[p]]) + 1) => ret' # "nil"]_vars

\* C36: the snapshot a Flush hands to its send callback never holds more
\* than MaxBatchItems records.
C36_SnapshotWithinItemCap ==
    \A p \in Procs :
        pc[p] \in {"send", "write", "write2", "dial"} => Len(snap[p]) <= MaxBatchItems

\* the callers inside the shutdown sequence of Client.Close
Closers == {p \in Callers : op[p] \in {"Close", "CloseFlush", "CloseMgr"}}

\* C37: of concurrent and repeated Close calls one performs the shutdown:
\* at most one caller is inside the shutdown sequence, Manager.Close of each
\* accumulator and Sender.Close are entered at most once, and a Close that
\* finds the client closing or closed returns a validation error and
\* changes nothing.
C37_OneCloseShutsDown ==
    /\ [](Cardinality(Closers) <= 1)
    /\ [][\A p \in Callers : MgrCloseBegin(p) => ~done[acc[p]]]_vars
    /\ [][\A p \in Callers : SenderClose(p) => ~sctxDone]_vars
    /\ [][\A p \in Callers :
            (CloseBegin(p) /\ (closing \/ closed)) =>
                (/\ ret' = "Validation"
                 /\ UNCHANGED <<mgrVars, closing, closed, pc, op, acc, snap,
                                flushErr, sndVars, cmVars, envVars>>)]_vars

\* a Close has been refused while the shutdown of another caller is running
C37_Witness ==
    /\ Closers # {}
    /\ closing /\ ~closed
    /\ ret = "Validation"
    /\ ~ingestRejected
    /\ \E a \in Accs : done[a]

\* C38: once ConnManager.Close has returned (the client is marked closed
\* right after it) the manager holds no connection and none is installed
\* any more: cm.conn is nil and stays nil.
C38_NoConnAfterClose == [][closed => conn' = "nil"]_vars

\* the goroutines inside a Flush of accumulator a that holds a snapshot
FlushesOf(a) == {p \in Flushing : acc[p] = a}

\* C39: whenever no flush of an accumulator is in progress, the records
\* appended to it are its success count plus its queue plus the records of
\* the snapshots given up under a fired ctx; and the success count changes
\* only with a successful send, by the length of the snapshot sent.
C39_RecordsConserved ==
    /\ [](\A a \in Accs :
            FlushesOf(a) = {} =>
                added[a] = successCount[a] + Len(events[a]) + dropped[a])
    /\ [][\A a \in Accs :
            successCount'[a] # successCount[a] =>
                \E p \in FlushesOf(a) :
                    /\ SendWrite(p)
                    /\ Len(wire') = Len(wire) + 1
                    /\ successCount'[a] = successCount[a] + Len(snap[p])]_vars
    /\ [][\A p \in Procs :
            (SendWrite(p) /\ Len(wire') = Len(wire) + 1) =>
                successCount'[acc[p]] = successCount[acc[p]] + Len(snap[p])]_vars

\* records were sent and a snapshot was given up, and no flush is in
\* progress
C39_Witness ==
    /\ FlushesOf("event") = {}
    /\ successCount["event"] > 0
    /\ dropped["event"] > 0
    /\ added["event"] = MaxRecords

====
